---------------------------- MODULE Spec2Model ----------------------------
(***************************************************************************)
(* A model of iconix (src/iconix.py): the IconSize parser, the argument    *)
(* handling of convert_args_to_settings and the module-level pipeline      *)
(* load -> square check -> install loop -> cache notifier -> removal       *)
(* instructions.                                                           *)
(*                                                                         *)
(* Strings the program inspects character by character (size tokens, size  *)
(* directory names) are sequences of one-character strings.                *)
(***************************************************************************)
EXTENDS Integers, Sequences, FiniteSets, TLC

(***************************************************************************)
(* Bounds of the model.                                                    *)
(***************************************************************************)
\* Longest size token handed to IconSize in SpecParse.
MaxTokenLen == 6
\* Most --size values on a command line in Spec.
MaxSizes == 3
\* The most resize_image_as_copy calls made on one IconImage.
MaxResizeCalls == 3
\* The most chunks a response delivers before its end.
MaxChunks == 3
\* The largest size and the largest scale of the IconSize values named,
\* beside the sizes 128 and 1024.
MaxNameSize == 12
MaxNameScale == 11

VARIABLES
    \* ---- SpecParse: one call of IconSize(text) ----
    text,           \* the token handed to IconSize
    icon_size,      \* what the call produced: an IconSize or the error raised
    ppc,            \* "call" before the call, "returned" after it
    \* ---- Spec: one run of iconix.py ----
    argv,           \* the command line
    svg_supported,  \* whether `import cairosvg` succeeded (line 22-30)
    environ,        \* the environment variable XDG_DATA_HOME
    pc,             \* the statement the run is at
    settings,       \* what convert_args_to_settings returned
    raw_bytes,      \* the bytes of the chosen source (file or archive member)
    icon_image,     \* the IconImage built from them
    icon_theme_dir, \* the theme root computed at line 564-566
    idx,            \* position of the install loop in settings.icon_sizes
    scaled_icon_img,\* the image resized for the current size
    resize_calls,   \* how often resize_image_as_copy has been called
    installed_icons,\* line 572
    printed,        \* what the run has printed, in order
    io,             \* the kinds of I/O done so far: "file", "network", "theme"
    root_exists,    \* filesystem: the theme root directory exists
    fs_dirs,        \* filesystem: icon directories made under the theme root
    fs_files,       \* filesystem: icon files written under the theme root
    touched,        \* filesystem: how often the theme root's mtime was set
    cache_runs,     \* how often gtk-update-icon-cache was invoked
    cache_result,   \* the result of that invocation
    removal_file,   \* the content of how_to_remove.txt, as written by this run
    exit_code,      \* the exit status once the run has ended
    faults,         \* the stages at which something went wrong in this run
    \* ---- SpecResize: calls of the methods of one IconImage ----
    rz_pc,          \* "new" before the constructor, then "ready" or "raised"
    rz_cairosvg,    \* whether `import cairosvg` succeeded
    rz_built,       \* the IconImage as its constructor left it
    rz_image,       \* the IconImage now
    rz_size,        \* the IconSize of the latest resize_image_as_copy call
    rz_result,      \* what that call returned
    rz_seen,        \* what the latest get_image_size call returned
    rz_calls,       \* how many resize_image_as_copy calls were made
    rz_images,      \* how many Image objects exist
    \* ---- SpecDownload: one call of download_with_progress ----
    dl_module,      \* the file whose download_with_progress is called
    dl_code,        \* response.getcode()
    dl_length,      \* the Content-Length header of the response
    dl_body,        \* the chunks the response delivers, in order
    dl_tty,         \* is_terminal_output()
    dl_pc,          \* "open", "loop", then "returned" or "raised"
    dl_unread,      \* the chunks not yet read
    dl_reads,       \* how many response.read calls were made
    total_size,     \* line 271-278; -1 for None
    data,           \* the BytesIO of line 280: its bytes and its position
    bytes_downloaded, \* line 281
    dl_out,         \* what the call has printed
    dl_result,      \* what the call returned or raised
    \* ---- SpecPatch: one run of patch.py ----
    pt_pc,          \* the statement the run is at
    pt_response,    \* the status of the response to the download request
    pt_archive,     \* the archive downloaded: whether it opens, its member
    pt_environ,     \* the environment variable XDG_DATA_HOME
    tar_data,       \* patch.py line 155
    discord_png_data, \* patch.py line 162: the member's bytes, the position
    pt_width,       \* patch.py line 169: width
    pt_height,      \* patch.py line 169: height
    pt_dirs,        \* filesystem: directories made under the theme root
    pt_files,       \* filesystem: files written under the theme root
    pt_touched,     \* how often the theme root's mtime was set
    pt_cache_runs,  \* how often gtk-update-icon-cache was invoked
    pt_removal,     \* the content of how_to_remove.txt
    pt_out,         \* what the run has printed
    pt_exit,        \* the exit status once the run has ended
    pt_faults,      \* the stages at which something went wrong
    \* ---- SpecName: the names of two IconSize values ----
    nm_pc,          \* "made", "named", "parsed"
    nm_a,           \* an IconSize
    nm_b,           \* another, or the same
    nm_name_a,      \* nm_a.get_name()
    nm_name_b,      \* nm_b.get_name()
    nm_back         \* IconSize(nm_name_a)

parseVars == <<text, icon_size, ppc>>

runVars == <<argv, svg_supported, environ, pc, settings, raw_bytes, icon_image,
             icon_theme_dir, idx, scaled_icon_img, resize_calls,
             installed_icons, printed, io, root_exists, fs_dirs, fs_files,
             touched, cache_runs, cache_result, removal_file, exit_code,
             faults>>

resizeVars == <<rz_pc, rz_cairosvg, rz_built, rz_image, rz_size, rz_result,
                rz_seen, rz_calls, rz_images>>

downloadVars == <<dl_module, dl_code, dl_length, dl_body, dl_tty, dl_pc,
                  dl_unread, dl_reads, total_size, data, bytes_downloaded,
                  dl_out, dl_result>>

nameVars == <<nm_pc, nm_a, nm_b, nm_name_a, nm_name_b, nm_back>>

patchVars == <<pt_pc, pt_response, pt_archive, pt_environ, tar_data,
               discord_png_data, pt_width, pt_height, pt_dirs, pt_files, pt_touched,
               pt_cache_runs, pt_removal, pt_out, pt_exit, pt_faults>>

\* What a run of iconix.py leaves alone, and likewise a call of IconSize, the
\* calls on an IconImage, a call of download_with_progress and a run of
\* patch.py.
otherVars == <<parseVars, resizeVars, downloadVars, patchVars, nameVars>>
notParseVars == <<runVars, resizeVars, downloadVars, patchVars, nameVars>>
notResizeVars == <<parseVars, runVars, downloadVars, patchVars, nameVars>>
notDownloadVars == <<parseVars, runVars, resizeVars, patchVars, nameVars>>
notPatchVars == <<parseVars, runVars, resizeVars, downloadVars, nameVars>>
notNameVars == <<parseVars, runVars, resizeVars, downloadVars, patchVars>>

vars == <<parseVars, runVars, resizeVars, downloadVars, patchVars, nameVars>>

(***************************************************************************)
(* Characters and decimal numbers.                                         *)
(***************************************************************************)
NL == "\n"

DigitChars == <<"0", "1", "2", "3", "4", "5", "6", "7", "8", "9">>

Digits == {DigitChars[i] : i \in 1..10}

\* The value of one decimal digit, as int() reads it.
DigitVal(c) == CHOOSE v \in 0..9 : DigitChars[v + 1] = c

\* \d+ : a non-empty run of digits.
IsDigits(s) == Len(s) > 0 /\ \A i \in 1..Len(s) : s[i] \in Digits

\* int(s, 10) of a digit string.
RECURSIVE int10(_)
int10(s) ==
    IF s = <<>> THEN 0
    ELSE int10(SubSeq(s, 1, Len(s) - 1)) * 10 + DigitVal(s[Len(s)])

\* f"{n}" of a non-negative integer.
RECURSIVE str(_)
str(n) ==
    IF n < 10 THEN <<DigitChars[n + 1]>>
    ELSE Append(str(n \div 10), DigitChars[(n % 10) + 1])

(***************************************************************************)
(* IconSize.__init__ on a string: the regular expression                   *)
(*     ^(\d+)(?:x\1(?:@(\d+))?)?$                                          *)
(* used with re.search.  Python's $ (without re.MULTILINE) matches at the  *)
(* end of the string and also just before a newline that ends the string.  *)
(***************************************************************************)
NoMatch == [matched |-> FALSE, g1 |-> <<>>, g2 |-> <<>>]

\* What is left for the pattern to consume when $ matches before a final newline.
BeforeFinalNewline(s) ==
    IF Len(s) > 0 /\ s[Len(s)] = NL THEN SubSeq(s, 1, Len(s) - 1) ELSE s

\* The longest prefix of s made of digits: what the greedy (\d+) takes. A
\* shorter take leaves a digit where the pattern wants "x" or the end.
DigitRun(s) ==
    LET ok == {i \in 0..Len(s) : \A j \in 1..i : s[j] \in Digits}
        n  == CHOOSE i \in ok : \A k \in ok : k <= i
    IN  SubSeq(s, 1, n)

\* re.search of the pattern in `s`: g2 = <<>> stands for m.group(2) is None
\* (a matched group 2 is never empty).
re_search_size(s) ==
    LET body   == BeforeFinalNewline(s)
        g1     == DigitRun(body)
        n      == Len(g1)
        rest   == SubSeq(body, n + 1, Len(body))
        hasX   == /\ Len(rest) >= 1 + n
                  /\ rest[1] = "x"
                  /\ SubSeq(rest, 2, 1 + n) = g1
        afterX == SubSeq(rest, 2 + n, Len(rest))
    IN  IF n = 0 THEN NoMatch
        ELSE IF rest = <<>> THEN [matched |-> TRUE, g1 |-> g1, g2 |-> <<>>]
        ELSE IF ~hasX THEN NoMatch
        ELSE IF afterX = <<>> THEN [matched |-> TRUE, g1 |-> g1, g2 |-> <<>>]
        ELSE IF afterX[1] = "@" /\ IsDigits(Tail(afterX))
             THEN [matched |-> TRUE, g1 |-> g1, g2 |-> Tail(afterX)]
        ELSE NoMatch

\* The value of a call that raised ValueError.
Raised(why) == [ok |-> FALSE, err |-> why, size |-> 0, scale |-> 0]

\* The checks that end IconSize.__init__ (lines 79-86).
ValidateIconSize(size, scale) ==
    IF size % 2 /= 0 THEN Raised("Size must be an even number")
    ELSE IF size <= 0 THEN Raised("Size must be a positive number")
    ELSE IF scale <= 0 THEN Raised("Scale must be a positive number")
    ELSE [ok |-> TRUE, err |-> "", size |-> size, scale |-> scale]

\* IconSize with a scale in the token not overriding the scale argument
\* (lines 74-75 left out).
IconSize_ScaleNotOverridden(size) ==
    LET m == re_search_size(size)
    IN  IF ~m.matched THEN Raised("Invalid size specifier")
        ELSE ValidateIconSize(int10(m.g1), 1)

\* IconSize(size) for a string, the scale argument at its default 1.
IconSize(size) ==
    LET m == re_search_size(size)
    IN  IF ~m.matched THEN Raised("Invalid size specifier")
        ELSE ValidateIconSize(int10(m.g1),
                              IF m.g2 /= <<>> THEN int10(m.g2) ELSE 1)

\* IconSize(size) for an int (the entries of DEFAULT_ICON_SIZES).
IconSizeOfInt(size) == ValidateIconSize(size, 1)

\* get_name leaving the scale out.
get_name_NoScale(s) == str(s.size) \o <<"x">> \o str(s.size)

\* get_name writing the scale whatever it is.
get_name_AlwaysScale(s) ==
    str(s.size) \o <<"x">> \o str(s.size) \o <<"@">> \o str(s.scale)

\* IconSize.get_name
get_name(s) ==
    IF s.scale <= 1
    THEN str(s.size) \o <<"x">> \o str(s.size)
    ELSE str(s.size) \o <<"x">> \o str(s.size) \o <<"@">> \o str(s.scale)

\* __lt__ comparing the sizes only.
IconSize_lt_SizeOnly(a, b) == a.size < b.size

\* IconSize.__lt__
IconSize_lt(a, b) ==
    IF a.size = b.size THEN a.scale < b.scale ELSE a.size < b.size


\* list.sort() on a list of IconSize: a stable insertion sort by __lt__ (what
\* CPython's sort does on lists this short).
RECURSIVE sort_insert(_, _)
sort_insert(s, x) ==
    IF s = <<>> THEN <<x>>
    ELSE IF IconSize_lt(x, s[Len(s)])
         THEN Append(sort_insert(SubSeq(s, 1, Len(s) - 1), x), s[Len(s)])
         ELSE Append(s, x)

RECURSIVE list_sort(_)
list_sort(s) ==
    IF s = <<>> THEN <<>>
    ELSE sort_insert(list_sort(SubSeq(s, 1, Len(s) - 1)), s[Len(s)])

(***************************************************************************)
(* The command line.                                                       *)
(***************************************************************************)
DEFAULT_ICON_SIZES == <<16, 32, 48, 64, 128, 256, 512, 1024>>

\* The --size tokens command lines are built from: "32", "64", "32x32@2",
\* "64x64@2" and the odd "3x3".
SizeTokens ==
    { <<"3", "2">>,
      <<"6", "4">>,
      <<"3", "2", "x", "3", "2", "@", "2">>,
      <<"6", "4", "x", "6", "4", "@", "2">>,
      <<"3", "x", "3">> }

\* --size omitted (the default list is used), or one to MaxSizes tokens.
SizeArgs ==
    {[given |-> FALSE, tokens |-> <<>>]} \cup
    {[given |-> TRUE, tokens |-> t] :
        t \in UNION {[1..n -> SizeTokens] : n \in 1..MaxSizes}}

\* --icon: omitted, or a path that is no regular file, an empty file, or a
\* non-empty file with suffix .png or .svg.
NoIcon == [given |-> FALSE, is_file |-> FALSE, st_size |-> 0, suffix |-> ""]

IconArgs ==
    { NoIcon,
      [given |-> TRUE, is_file |-> FALSE, st_size |-> 0, suffix |-> ".png"],
      [given |-> TRUE, is_file |-> TRUE, st_size |-> 0, suffix |-> ".png"],
      [given |-> TRUE, is_file |-> TRUE, st_size |-> 1, suffix |-> ".png"],
      [given |-> TRUE, is_file |-> TRUE, st_size |-> 1, suffix |-> ".svg"] }

Names == {"", "testapp"}

\* A command line with no argument at all (len(sys.argv) - 1 = 0).
NoArgs == [total_args |-> 0, discord |-> FALSE, icon |-> NoIcon,
           name |-> "vesktop", size |-> [given |-> FALSE, tokens |-> <<>>],
           simulate |-> FALSE]

Argvs ==
    {NoArgs} \cup
    [total_args : {1}, discord : BOOLEAN, icon : IconArgs, name : Names,
     size : SizeArgs, simulate : BOOLEAN]

(***************************************************************************)
(* convert_args_to_settings (lines 146-239).                               *)
(***************************************************************************)
NoSettings == [name |-> "", icon_sizes |-> <<>>, simulate |-> FALSE,
               use_discord |-> FALSE, icon_path |-> NoIcon, ok |-> FALSE]

\* argparse applies type=IconSize to every --size token (line 176); a token
\* IconSize raises on makes parse_args call parser.error, which exits.
ArgparseRejects(a) ==
    \E k \in 1..Len(a.size.tokens) : ~IconSize(a.size.tokens[k]).ok

\* The ValueError raised by the validation of lines 200-220, "" when none is.
ValidationError(a, svg_ok) ==
    IF a.name = "" THEN "The target icon name cannot be empty."
    ELSE IF a.icon.given /\ ~a.icon.is_file
         THEN "The file does not exist or is not a regular file."
    ELSE IF a.icon.given /\ a.icon.st_size <= 0 THEN "The file is empty."
    ELSE IF a.icon.given /\ ~svg_ok /\ a.icon.suffix = ".svg"
         THEN "You attempted to use an SVG file, but CairoSVG is not available on your system."
    ELSE IF ~a.discord /\ ~a.icon.given
         THEN "You must choose either the Discord icon or a custom icon."
    ELSE ""

\* Whether the validation touched the file system: icon_path.is_file() and
\* icon_path.stat() run once the name was found non-empty (lines 204-212).
ValidationStatsFile(a) == a.name /= "" /\ a.icon.given

\* Lines 222-229: the sizes as IconSize values, sorted.
TargetIconSizes(a) ==
    list_sort(
        IF a.size.given
        THEN [k \in 1..Len(a.size.tokens) |-> IconSize(a.size.tokens[k])]
        ELSE [k \in 1..Len(DEFAULT_ICON_SIZES) |->
                 IconSizeOfInt(DEFAULT_ICON_SIZES[k])])

\* Lines 233-239.
SettingsOf(a) ==
    [name |-> a.name, icon_sizes |-> TargetIconSizes(a),
     simulate |-> a.simulate, use_discord |-> a.discord,
     icon_path |-> a.icon, ok |-> TRUE]

(***************************************************************************)
(* Images.  A byte buffer is a PNG of some dimensions, an SVG document, or *)
(* something no decoder accepts; a decoded image has a width, a height and *)
(* pixels.                                                                 *)
(***************************************************************************)
RasterDims == {<<32, 32>>, <<64, 64>>, <<32, 16>>}

PngBytes(w, h) == [fmt |-> "png", w |-> w, h |-> h]
SvgBytes == [fmt |-> "svg", w |-> 0, h |-> 0]
JunkBytes == [fmt |-> "junk", w |-> 0, h |-> 0]
NoBytes == [fmt |-> "none", w |-> 0, h |-> 0]

ByteBuffers == {PngBytes(d[1], d[2]) : d \in RasterDims} \cup {SvgBytes, JunkBytes}

NoImg == [w |-> -1, h |-> -1, pix |-> <<"none">>]

NoIconImage == [ok |-> FALSE, id |-> "", is_svg |-> FALSE, img |-> NoImg,
                raw |-> NoBytes]

\* IconImage.is_svg (lines 426-439): the suffix when a path is known, else the
\* "<svg" marker in the first bytes.
is_svg_of(path, raw) ==
    IF path.given THEN path.suffix = ".svg" ELSE raw.fmt = "svg"

\* IconImage.__post_init__ (lines 389-416) for a path (whose bytes are `raw`)
\* or for raw bytes (path = NoIcon): non-SVG bytes are decoded at once, and
\* Image.open raises on bytes that are no raster image.
IconImageOf(path, raw) ==
    LET svg == is_svg_of(path, raw)
    IN  IF ~svg /\ raw.fmt /= "png" THEN NoIconImage
        ELSE [ok |-> TRUE,
              id |-> IF path.given THEN "Custom Icon" ELSE "Official Discord Icon",
              is_svg |-> svg,
              img |-> IF svg THEN NoImg
                      ELSE [w |-> raw.w, h |-> raw.h, pix |-> <<"decoded">>],
              raw |-> raw]

\* IconImage.get_image_size (lines 441-452).
get_image_size(image) ==
    IF image.is_svg THEN <<-1, -1>> ELSE <<image.img.w, image.img.h>>

\* resize_image_as_copy taking the scale into the pixel dimensions.
resize_image_as_copy_Scaled(image, size, svg_ok) ==
    LET width  == size.size * size.scale
        height == size.size * size.scale
        cur    == get_image_size(image)
    IN  IF image.is_svg
        THEN IF svg_ok /\ image.raw.fmt = "svg"
             THEN [ok |-> TRUE,
                   img |-> [w |-> width, h |-> height,
                            pix |-> <<"svg2png", width, height>>]]
             ELSE [ok |-> FALSE, img |-> NoImg]
        ELSE IF cur[1] = width /\ cur[2] = height
             THEN [ok |-> TRUE, img |-> image.img]
             ELSE [ok |-> TRUE,
                   img |-> [w |-> width, h |-> height,
                            pix |-> <<"lanczos", cur[1], cur[2], width, height>>]]

\* IconImage.resize_image_as_copy (lines 454-495): ok = FALSE when it raises,
\* which the SVG branch does without CairoSVG or on bytes that are no SVG.
resize_image_as_copy(image, size, svg_ok) ==
    LET width  == size.size
        height == size.size
        cur    == get_image_size(image)
    IN  IF image.is_svg
        THEN IF svg_ok /\ image.raw.fmt = "svg"
             THEN [ok |-> TRUE,
                   img |-> [w |-> width, h |-> height,
                            pix |-> <<"svg2png", width, height>>]]
             ELSE [ok |-> FALSE, img |-> NoImg]
        ELSE IF cur[1] = width /\ cur[2] = height
             THEN [ok |-> TRUE, img |-> image.img]
             ELSE [ok |-> TRUE,
                   img |-> [w |-> width, h |-> height,
                            pix |-> <<"lanczos", cur[1], cur[2], width, height>>]]

(***************************************************************************)
(* The IconImage object with the state its methods keep: the position of   *)
(* the raw_bytes stream and the cached answer of is_svg.  A stream read    *)
(* from its start yields the bytes it holds; read from anywhere else it    *)
(* yields a tail of them, which no decoder accepts and which holds no      *)
(* "<svg" marker of the head.                                              *)
(***************************************************************************)
NoObject == [path |-> NoIcon, raw |-> NoBytes, pos |-> "start", img |-> NoImg,
             img_id |-> 0, is_svg |-> "None"]

\* rewind_raw_bytes doing nothing.
rewind_raw_bytes_Nothing(o) == o

\* IconImage.rewind_raw_bytes (lines 497-501).
rewind_raw_bytes(o) ==
    IF o.raw /= NoBytes THEN [o EXCEPT !.pos = "start"] ELSE o

\* self.raw_bytes.read(...) and the readers Image.open and cairosvg.svg2png.
ReadStream(o) == IF o.pos = "start" THEN o.raw ELSE JunkBytes

\* The cached value of _is_svg for a truth value.
Cached(b) == IF b THEN "True" ELSE "False"

\* IconImage.is_svg (lines 426-439) as a method: the object after the call,
\* whose is_svg field then holds the answer.
call_is_svg(o) ==
    IF o.is_svg /= "None" THEN o
    ELSE IF o.path.given
    THEN [o EXCEPT !.is_svg = Cached(o.path.suffix = ".svg")]
    ELSE IF o.raw /= NoBytes
    THEN LET r == rewind_raw_bytes(o)
         IN  [r EXCEPT !.is_svg = Cached(ReadStream(r).fmt = "svg"),
                       !.pos = "moved"]
    ELSE [o EXCEPT !.is_svg = "False"]

\* IconImage._load_image_from_bytes (lines 511-525), for an object that is no
\* SVG and holds raw bytes.
load_image_from_bytes(o) ==
    LET r    == rewind_raw_bytes(o)
        read == ReadStream(r)
    IN  IF read.fmt /= "png" THEN [ok |-> FALSE, obj |-> r]
        ELSE [ok |-> TRUE,
              obj |-> [r EXCEPT !.pos = "moved",
                                !.img = [w |-> read.w, h |-> read.h,
                                         pix |-> <<"decoded">>],
                                !.img_id = 1]]

\* IconImage.__post_init__ (lines 389-416) for the inputs path (a file holding
\* `file`), raw_bytes and img; an input not given is NoIcon, NoBytes, NoImg.
post_init(path, file, raw, img) ==
    LET input_count == (IF path.given THEN 1 ELSE 0)
                       + (IF raw /= NoBytes THEN 1 ELSE 0)
                       + (IF img /= NoImg THEN 1 ELSE 0)
        o0 == [path |-> path, raw |-> raw, pos |-> "start", img |-> img,
               img_id |-> IF img /= NoImg THEN 1 ELSE 0, is_svg |-> "None"]
        o1 == IF img = NoImg /\ raw = NoBytes /\ path.given
              THEN [o0 EXCEPT !.raw = file] ELSE o0
        o2 == IF img = NoImg THEN call_is_svg(o1) ELSE o1
    IN  IF input_count /= 1 THEN [ok |-> FALSE, obj |-> NoObject]
        ELSE IF img = NoImg /\ o2.is_svg = "False"
        THEN load_image_from_bytes(o2)
        ELSE [ok |-> TRUE, obj |-> o2]

\* IconImage.get_image_size (lines 441-452) as a method.
call_get_image_size(o) ==
    LET o1 == call_is_svg(o)
    IN  [obj |-> o1,
         size |-> get_image_size([is_svg |-> o1.is_svg = "True", img |-> o1.img])]

\* IconImage.resize_image_as_copy (lines 454-495) as a method: the object
\* after the call and what the call returned; the Image returned is a new
\* object, numbered `fresh`.
call_resize_image_as_copy(o, size, svg_ok, fresh) ==
    LET o1 == call_is_svg(o)
    IN  IF o1.is_svg = "True"
        THEN IF o1.raw = NoBytes
             THEN [obj |-> o1, ok |-> FALSE, img |-> NoImg, img_id |-> 0]
             ELSE LET o2 == rewind_raw_bytes(o1)
                      r  == resize_image_as_copy(
                                [is_svg |-> TRUE, raw |-> ReadStream(o2),
                                 img |-> o2.img], size, svg_ok)
                  IN  [obj |-> IF svg_ok THEN [o2 EXCEPT !.pos = "moved"] ELSE o2,
                       ok |-> r.ok, img |-> r.img,
                       img_id |-> IF r.ok THEN fresh ELSE 0]
        ELSE LET r == resize_image_as_copy(
                          [is_svg |-> FALSE, raw |-> o1.raw, img |-> o1.img],
                          size, svg_ok)
             IN  [obj |-> o1, ok |-> r.ok, img |-> r.img,
                  img_id |-> IF r.ok THEN fresh ELSE 0]

(***************************************************************************)
(* Paths under the icon theme.                                             *)
(***************************************************************************)
\* The environment variable XDG_DATA_HOME: unset, set to "", set to a path.
XdgValues == {[set |-> FALSE, val |-> ""], [set |-> TRUE, val |-> ""],
              [set |-> TRUE, val |-> "/xdg"]}

\* get_xdg_data_home (lines 369-375), as path components.
get_xdg_data_home(xdg) ==
    IF xdg.set /\ xdg.val /= "" THEN <<xdg.val>> ELSE <<"$HOME", ".local/share">>

\* Line 566.
ThemeDirOf(xdg) == get_xdg_data_home(xdg) \o <<"icons", "hicolor">>

NoDir == <<>>

\* Line 581: icon_theme_dir / f"{icon_size_name}/{icon_context}".
IconParentDir(theme_dir, size) ==
    [root |-> theme_dir, size_dir |-> get_name(size), context |-> "apps"]

\* Line 582: icon_parent_dir / f"{target_icon_name}.png".
IconTargetFile(theme_dir, size, name) ==
    [dir |-> IconParentDir(theme_dir, size), file |-> <<name, ".png">>]

(***************************************************************************)
(* Printed lines and the end of a run.                                     *)
(***************************************************************************)
Line(kind, what) == [kind |-> kind, what |-> what]

\* exit(code), or the interpreter ending after an uncaught exception.
Exit(code) == pc' = "exited" /\ exit_code' = code

Goto(label) == pc' = label /\ UNCHANGED exit_code

\* The handlers of lines 553-555 and 608-610: print the error, exit(1).
ErrorExit(stage, message) ==
    /\ printed' = Append(printed, Line("error", message))
    /\ faults' = faults \cup {stage}
    /\ Exit(1)

inputVars == <<argv, svg_supported, environ>>
loadVars  == <<settings, raw_bytes, icon_image>>
loopVars  == <<icon_theme_dir, idx, scaled_icon_img, resize_calls, installed_icons>>
fsVars    == <<root_exists, fs_dirs, fs_files, touched, cache_runs>>
tailVars  == <<cache_result, removal_file>>

NoCacheResult == [found |-> FALSE, returncode |-> 0, stdout |-> ""]
NoFile == <<>>

(***************************************************************************)
(* Spec: one run of iconix.py from its command line to its exit.           *)
(***************************************************************************)
InitRun ==
    /\ argv \in Argvs
    /\ svg_supported \in BOOLEAN
    /\ environ \in XdgValues
    /\ root_exists \in BOOLEAN
    /\ pc = "args"
    /\ settings = NoSettings
    /\ raw_bytes = NoBytes
    /\ icon_image = NoIconImage
    /\ icon_theme_dir = NoDir
    /\ idx = 1
    /\ scaled_icon_img = NoImg
    /\ resize_calls = 0
    /\ installed_icons = <<>>
    /\ printed = <<>>
    /\ io = {}
    /\ fs_dirs = {}
    /\ fs_files = {}
    /\ touched = 0
    /\ cache_runs = 0
    /\ cache_result = NoCacheResult
    /\ removal_file = NoFile
    /\ exit_code = -1     \* no exit status yet
    /\ faults = {}

\* SpecParse leaves the run where it is, and Spec the parser.
RunIdle ==
    /\ argv = NoArgs
    /\ svg_supported = FALSE
    /\ environ = [set |-> FALSE, val |-> ""]
    /\ root_exists = FALSE
    /\ pc = "idle"
    /\ settings = NoSettings
    /\ raw_bytes = NoBytes
    /\ icon_image = NoIconImage
    /\ icon_theme_dir = NoDir
    /\ idx = 1
    /\ scaled_icon_img = NoImg
    /\ resize_calls = 0
    /\ installed_icons = <<>>
    /\ printed = <<>>
    /\ io = {}
    /\ fs_dirs = {}
    /\ fs_files = {}
    /\ touched = 0
    /\ cache_runs = 0
    /\ cache_result = NoCacheResult
    /\ removal_file = NoFile
    /\ exit_code = -1     \* no exit status yet
    /\ faults = {}

NotCalled == [ok |-> FALSE, err |-> "not called", size |-> 0, scale |-> 0]

ParseIdle ==
    /\ text = <<>>
    /\ icon_size = NotCalled
    /\ ppc = "idle"

NoResult == [ok |-> FALSE, img |-> NoImg, img_id |-> 0]

NoSize == [ok |-> FALSE, err |-> "not called", size |-> 0, scale |-> 0]

ResizeIdle ==
    /\ rz_pc = "idle"
    /\ rz_cairosvg = FALSE
    /\ rz_built = NoObject
    /\ rz_image = NoObject
    /\ rz_size = NoSize
    /\ rz_result = NoResult
    /\ rz_seen = <<0, 0>>
    /\ rz_calls = 0
    /\ rz_images = 0

EmptyBuffer == [buf |-> <<>>, pos |-> 0]

NoReturn == [kind |-> "none", data |-> EmptyBuffer]

NoHeader == [present |-> FALSE, val |-> <<>>]

DownloadIdle ==
    /\ dl_module = "iconix.py"
    /\ dl_code = 200
    /\ dl_length = NoHeader
    /\ dl_body = <<>>
    /\ dl_tty = FALSE
    /\ dl_pc = "idle"
    /\ dl_unread = <<>>
    /\ dl_reads = 0
    /\ total_size = -1
    /\ data = EmptyBuffer
    /\ bytes_downloaded = 0
    /\ dl_out = <<>>
    /\ dl_result = NoReturn

NameIdle ==
    /\ nm_pc = "idle"
    /\ nm_a = NotCalled
    /\ nm_b = NotCalled
    /\ nm_name_a = <<>>
    /\ nm_name_b = <<>>
    /\ nm_back = NotCalled

\* A BytesIO that does not exist (None).
NoStream == [raw |-> NoBytes, pos |-> "start"]

NoArchive == [opens |-> FALSE, member |-> NoBytes]

PatchIdle ==
    /\ pt_pc = "idle"
    /\ pt_response = 200
    /\ pt_archive = NoArchive
    /\ pt_environ = [set |-> FALSE, val |-> ""]
    /\ tar_data = "None"
    /\ discord_png_data = NoStream
    /\ pt_width = -1
    /\ pt_height = -1
    /\ pt_dirs = {}
    /\ pt_files = {}
    /\ pt_touched = 0
    /\ pt_cache_runs = 0
    /\ pt_removal = NoFile
    /\ pt_out = <<>>
    /\ pt_exit = -1      \* no exit status yet
    /\ pt_faults = {}

\* Line 530: settings = convert_args_to_settings(), inside the try of line 529.
ConvertArgs ==
    /\ pc = "args"
    /\ IF argv.total_args <= 0
       THEN \* lines 190-193: parser.print_help(); exit(1)
            /\ printed' = Append(printed, Line("help", "usage"))
            /\ faults' = faults \cup {"usage"}
            /\ Exit(1)
            /\ UNCHANGED <<settings, io>>
       ELSE IF ArgparseRejects(argv)
       THEN \* line 198: parser.error() prints the usage and exits with 2
            /\ printed' = Append(printed, Line("usage error", "argument -s/--size: invalid IconSize value"))
            /\ faults' = faults \cup {"argparse"}
            /\ Exit(2)
            /\ UNCHANGED <<settings, io>>
       ELSE /\ io' = IF ValidationStatsFile(argv) THEN io \cup {"file"} ELSE io
            /\ IF ValidationError(argv, svg_supported) /= ""
               THEN /\ ErrorExit("arguments", ValidationError(argv, svg_supported))
                    /\ UNCHANGED settings
               ELSE /\ settings' = SettingsOf(argv)
                    /\ Goto(IF argv.icon.given THEN "read" ELSE "download")
                    /\ UNCHANGED <<printed, faults>>
    /\ UNCHANGED <<inputVars, raw_bytes, icon_image, loopVars, fsVars, tailVars, otherVars>>

\* Line 534: IconImage(path=...) reads the file (_load_bytes_from_path).
ReadIconFile ==
    /\ pc = "read"
    /\ \E raw \in ByteBuffers : raw_bytes' = raw
    /\ io' = io \cup {"file"}
    /\ Goto("construct")
    /\ UNCHANGED <<inputVars, settings, icon_image, loopVars, fsVars, tailVars,
                   printed, faults, otherVars>>

\* Line 358: download_with_progress; urlopen raising or a non-200 response
\* ends in the handler of line 553.
Download ==
    /\ pc = "download"
    /\ io' = io \cup {"network"}
    /\ \E ok \in BOOLEAN :
          IF ok
          THEN Goto("extract") /\ UNCHANGED <<printed, faults>>
          ELSE ErrorExit("download", "HTTP response received.")
    /\ UNCHANGED <<inputVars, loadVars, loopVars, fsVars, tailVars, otherVars>>

\* Line 363: extract_discord_icon; the member may be missing from the archive.
ExtractIcon ==
    /\ pc = "extract"
    /\ \/ /\ \E raw \in ByteBuffers : raw_bytes' = raw
          /\ Goto("construct")
          /\ UNCHANGED <<printed, faults>>
       \/ /\ ErrorExit("extraction", "Discord/discord.png was not found in archive!")
          /\ UNCHANGED raw_bytes
    /\ UNCHANGED <<inputVars, settings, icon_image, loopVars, fsVars, tailVars,
                   io, otherVars>>

\* Lines 533-537: the IconImage is built; decoding may raise.
ConstructIconImage ==
    /\ pc = "construct"
    /\ LET image == IconImageOf(settings.icon_path, raw_bytes)
       IN  IF image.ok
           THEN /\ icon_image' = image
                /\ Goto("check")
                /\ UNCHANGED <<printed, faults>>
           ELSE /\ ErrorExit("decode", "cannot identify image file")
                /\ UNCHANGED icon_image
    /\ UNCHANGED <<inputVars, settings, raw_bytes, loopVars, fsVars, tailVars,
                   io, otherVars>>

\* The square check left out.
NotSquare_Never(image) == FALSE

\* Line 551: the square check applies to raster sources only.
NotSquare(image) ==
    LET size == get_image_size(image)
    IN  ~image.is_svg /\ size[1] /= size[2]

\* Lines 538-552, then lines 564-572 when the check passes.
CheckSquare ==
    /\ pc = "check"
    /\ IF NotSquare(icon_image)
       THEN /\ ErrorExit("non-square", "Icon dimensions are not square")
            /\ UNCHANGED icon_theme_dir
       ELSE /\ icon_theme_dir' = ThemeDirOf(environ)
            /\ Goto("resize")
            /\ UNCHANGED <<printed, faults>>
    /\ UNCHANGED <<inputVars, loadVars, idx, scaled_icon_img, resize_calls,
                   installed_icons, fsVars, tailVars, io, otherVars>>

\* Line 586: the icon is resized for the current size; an exception ends in
\* the handler of line 608.
Resize ==
    /\ pc = "resize"
    /\ resize_calls' = resize_calls + 1
    /\ LET r == resize_image_as_copy(icon_image, settings.icon_sizes[idx],
                                     svg_supported)
       IN  IF r.ok
           THEN /\ scaled_icon_img' = r.img
                /\ Goto("install")
                /\ UNCHANGED <<printed, faults>>
           ELSE /\ ErrorExit("resize", "no PNG could be rendered")
                /\ UNCHANGED scaled_icon_img
    /\ UNCHANGED <<inputVars, loadVars, icon_theme_dir, idx, installed_icons,
                   fsVars, tailVars, io, otherVars>>

\* How the writes of lines 591-605 can end.
InstallOutcomes == {"ok", "mkdir raises", "open raises", "save raises"}

\* A write that leaves no other icon file in place.
WriteFile_Alone(files, path, content) == {[path |-> path, content |-> content]}

\* The file at `path` replaced by one holding `content`.
WriteFile(files, path, content) ==
    {f \in files : f.path /= path} \cup {[path |-> path, content |-> content]}

\* Line 590: the disk is written unless this is a simulated run.
WritesToDisk(s) == ~s.simulate

\* The loop left one size early.
LoopNext_StopsEarly(i, sizes) == IF i + 1 < Len(sizes) THEN "resize" ELSE "touch"

\* Line 574: after the i-th size the for loop takes the next size, or ends and
\* line 612 is reached.
LoopNext(i, sizes) == IF i < Len(sizes) THEN "resize" ELSE "touch"

\* Lines 589-607: the target is printed and, unless simulating, its directory
\* made and the PNG written; then the loop goes on or ends.
Install ==
    /\ pc = "install"
    /\ LET size   == settings.icon_sizes[idx]
           parent == IconParentDir(icon_theme_dir, size)
           target == IconTargetFile(icon_theme_dir, size, settings.name)
           shown  == Append(printed, Line("target", target))
           next   == /\ installed_icons' = Append(installed_icons, target)
                     /\ idx' = idx + 1
                     /\ Goto(LoopNext(idx, settings.icon_sizes))
                     /\ printed' = shown
                     /\ UNCHANGED faults
           abort(stage, msg) ==
                     /\ printed' = Append(shown, Line("error", msg))
                     /\ faults' = faults \cup {stage}
                     /\ Exit(1)
                     /\ UNCHANGED <<installed_icons, idx>>
       IN  IF ~WritesToDisk(settings)
           THEN next /\ UNCHANGED <<io, root_exists, fs_dirs, fs_files>>
           ELSE /\ io' = io \cup {"theme"}
                /\ \E outcome \in InstallOutcomes :
                     CASE outcome = "mkdir raises" ->
                            /\ abort("mkdir", "mkdir failed")
                            /\ UNCHANGED <<root_exists, fs_dirs, fs_files>>
                       [] outcome = "open raises" ->
                            /\ root_exists' = TRUE
                            /\ fs_dirs' = fs_dirs \cup {parent}
                            /\ abort("write", "open failed")
                            /\ UNCHANGED fs_files
                       [] outcome = "save raises" ->
                            /\ root_exists' = TRUE
                            /\ fs_dirs' = fs_dirs \cup {parent}
                            /\ fs_files' = WriteFile(fs_files, target, <<"truncated">>)
                            /\ abort("write", "save failed")
                       [] outcome = "ok" ->
                            /\ root_exists' = TRUE
                            /\ fs_dirs' = fs_dirs \cup {parent}
                            /\ fs_files' = WriteFile(fs_files, target, <<"PNG", scaled_icon_img>>)
                            /\ next
    /\ UNCHANGED <<inputVars, loadVars, icon_theme_dir, scaled_icon_img,
                   resize_calls, touched, cache_runs, tailVars, otherVars>>

\* Line 618: os.utime(icon_theme_dir), outside every try: when it raises (the
\* directory is missing, or may not be changed) the interpreter prints the
\* traceback and ends with status 1.
TouchThemeDir ==
    /\ pc = "touch"
    /\ io' = io \cup {"theme"}
    /\ \E ok \in {b \in BOOLEAN : b => root_exists} :
          IF ok
          THEN /\ touched' = touched + 1
               /\ Goto("cache")
               /\ UNCHANGED <<printed, faults>>
          ELSE /\ printed' = Append(printed, Line("traceback", "os.utime"))
               /\ faults' = faults \cup {"touch"}
               /\ Exit(1)
               /\ UNCHANGED touched
    /\ UNCHANGED <<inputVars, loadVars, loopVars, root_exists, fs_dirs, fs_files,
                   cache_runs, tailVars, otherVars>>

\* What gtk-update-icon-cache may answer.
CacheOutputs == {"", "gtk-update-icon-cache: Cache file created successfully."}

\* The return code of the cache refresh ignored.
CacheFailed_Never(result) == FALSE

\* Line 630: the cache refresh counts as failed.
CacheFailed(result) == result.returncode /= 0

\* Lines 631 and 634: what is printed after the invocation.
CacheReport(result) ==
    IF CacheFailed(result)
    THEN Line("error", "A problem occurred while executing gtk-update-icon-cache.")
    ELSE Line("cache", result.stdout)

\* Lines 619-634: the cache refresh, when the executable is on the path.
RefreshCache ==
    /\ pc = "cache"
    /\ \/ \* shutil.which finds nothing
          /\ Goto("removal")
          /\ UNCHANGED <<cache_runs, cache_result, printed, faults>>
       \/ \E rc \in {0, 1}, out \in CacheOutputs :
             LET result == [found |-> TRUE, returncode |-> rc, stdout |-> out]
             IN  /\ cache_runs' = cache_runs + 1
                 /\ cache_result' = result
                 /\ printed' = Append(printed, CacheReport(result))
                 /\ IF CacheFailed(result)
                    THEN Exit(1)
                    ELSE Goto("removal")
                 /\ faults' = IF rc /= 0 THEN faults \cup {"cache"} ELSE faults
    /\ UNCHANGED <<inputVars, loadVars, loopVars, io, root_exists, fs_dirs,
                   fs_files, touched, removal_file, otherVars>>

\* The removal instructions without the delete commands of the icons after
\* the first.
RemovalMsg_FirstIconOnly(installed, theme_dir) ==
    [k \in 1..(IF Len(installed) > 0 THEN 1 ELSE 0) |-> Line("rm -fv", installed[k])]
    \o <<Line("touch --no-create", theme_dir),
         Line("gtk-update-icon-cache -f -t", theme_dir)>>

\* Lines 638-646: one rm per installed icon, then the touch and the cache
\* refresh.
RemovalMsg(installed, theme_dir) ==
    [k \in 1..Len(installed) |-> Line("rm -fv", installed[k])]
    \o <<Line("touch --no-create", theme_dir),
         Line("gtk-update-icon-cache -f -t", theme_dir)>>

\* Lines 648-663: the removal instructions are written next to the program
\* and printed; the run ends. write_text raising ends the run with status 1.
WriteRemoval ==
    /\ pc = "removal"
    /\ \E ok \in BOOLEAN :
          IF ok
          THEN /\ removal_file' = RemovalMsg(installed_icons, icon_theme_dir)
               /\ printed' = Append(printed, Line("instructions", "how_to_remove.txt"))
               /\ Exit(0)
               /\ UNCHANGED faults
          ELSE /\ printed' = Append(printed, Line("traceback", "write_text"))
               /\ faults' = faults \cup {"removal"}
               /\ Exit(1)
               /\ UNCHANGED removal_file
    /\ UNCHANGED <<inputVars, loadVars, loopVars, io, fsVars, cache_result, otherVars>>

Next ==
    \/ ConvertArgs
    \/ ReadIconFile
    \/ Download
    \/ ExtractIcon
    \/ ConstructIconImage
    \/ CheckSquare
    \/ Resize
    \/ Install
    \/ TouchThemeDir
    \/ RefreshCache
    \/ WriteRemoval

Init ==
    InitRun /\ ParseIdle /\ ResizeIdle /\ DownloadIdle /\ PatchIdle /\ NameIdle

Spec == Init /\ [][Next]_vars

(***************************************************************************)
(* SpecParse: IconSize applied to every token over TokenAlphabet of at     *)
(* most MaxTokenLen characters.                                            *)
(***************************************************************************)
TokenAlphabet == {"0", "1", "2", "x", "@", NL}

Tokens == UNION {[1..n -> TokenAlphabet] : n \in 0..MaxTokenLen}

InitParse ==
    /\ text \in Tokens
    /\ icon_size = NotCalled
    /\ ppc = "call"
    /\ RunIdle
    /\ NameIdle
    /\ ResizeIdle
    /\ DownloadIdle
    /\ PatchIdle

CallIconSize ==
    /\ ppc = "call"
    /\ icon_size' = IconSize(text)
    /\ ppc' = "returned"
    /\ UNCHANGED <<text, notParseVars>>

NextParse == CallIconSize

SpecParse == InitParse /\ [][NextParse]_vars

(***************************************************************************)
(* Properties of IconSize (checked under SpecParse).                       *)
(***************************************************************************)
\* The token up to position i - 1, and from position i + 1 on.
Before(t, i) == SubSeq(t, 1, i - 1)
After(t, i) == SubSeq(t, i + 1, Len(t))

\* t is "NxN" with the x at position i.
IsNxN(t, i) ==
    /\ t[i] = "x"
    /\ IsDigits(Before(t, i))
    /\ After(t, i) = Before(t, i)

\* t is "NxN@S" with the x at position i and the @ at position j.
IsNxNatS(t, i, j) ==
    /\ i < j
    /\ t[i] = "x"
    /\ t[j] = "@"
    /\ IsDigits(Before(t, i))
    /\ SubSeq(t, i + 1, j - 1) = Before(t, i)
    /\ IsDigits(After(t, j))

\* C1: for every token IconSize accepts, "N" gives (N, 1), "NxN" gives (N, 1)
\* and "NxN@S" gives (N, S), N and S being the decimal values of the digits.
C1_ParsedValue ==
    (ppc = "returned" /\ icon_size.ok) =>
        /\ IsDigits(text) =>
              icon_size.size = int10(text) /\ icon_size.scale = 1
        /\ \A i \in 1..Len(text) :
              IsNxN(text, i) =>
                 /\ icon_size.size = int10(Before(text, i))
                 /\ icon_size.scale = 1
        /\ \A i, j \in 1..Len(text) :
              IsNxNatS(text, i, j) =>
                 /\ icon_size.size = int10(Before(text, i))
                 /\ icon_size.scale = int10(After(text, j))

\* C1's case: "12x12@2" does not fit MaxTokenLen, "2x2@2" does and is parsed
\* to size 2, scale 2.
C1_Witness ==
    /\ ppc = "returned"
    /\ text = <<"2", "x", "2", "@", "2">>
    /\ icon_size.ok
    /\ icon_size.size = 2
    /\ icon_size.scale = 2

EvenPositive(n) == n % 2 = 0 /\ n > 0

\* The whole token has one of the three shapes, N even and positive, S positive.
ValidToken(t) ==
    \/ IsDigits(t) /\ EvenPositive(int10(t))
    \/ \E i \in 1..Len(t) : IsNxN(t, i) /\ EvenPositive(int10(Before(t, i)))
    \/ \E i, j \in 1..Len(t) :
          /\ IsNxNatS(t, i, j)
          /\ EvenPositive(int10(Before(t, i)))
          /\ int10(After(t, j)) > 0

\* C2: IconSize(token) succeeds if and only if the whole token is "N", "NxN"
\* or "NxN@S" with N even and positive and S positive; every other string is
\* rejected.
C2_AcceptsExactlyValidTokens ==
    ppc = "returned" => (icon_size.ok <=> ValidToken(text))

\* C2 restricted to tokens that do not end in a newline.
C2_ExceptFinalNewline ==
    (ppc = "returned" /\ (text = <<>> \/ text[Len(text)] /= NL)) =>
        (icon_size.ok <=> ValidToken(text))


(***************************************************************************)
(* Properties of a run (checked under Spec).                               *)
(***************************************************************************)
\* The sizes the command line asks for, in the order given: the values of the
\* --size tokens, or the default list at scale 1.
RequestedSizes ==
    IF argv.size.given
    THEN [k \in 1..Len(argv.size.tokens) |-> IconSize(argv.size.tokens[k])]
    ELSE [k \in 1..Len(DEFAULT_ICON_SIZES) |->
             [ok |-> TRUE, err |-> "", size |-> DEFAULT_ICON_SIZES[k], scale |-> 1]]

Occurrences(x, s) == Cardinality({k \in 1..Len(s) : s[k] = x})

IsPermutation(s, t) ==
    /\ Len(s) = Len(t)
    /\ \A k \in 1..Len(s) : Occurrences(s[k], s) = Occurrences(s[k], t)

\* Ascending by size and, for equal size, by scale.
Ascending(s) ==
    \A i, j \in 1..Len(s) :
        i < j => \/ s[i].size < s[j].size
                 \/ s[i].size = s[j].size /\ s[i].scale <= s[j].scale

\* C3: the size list of the Settings returned by convert_args_to_settings is a
\* permutation of the requested sizes (of the default list when --size is
\* omitted), ascending by size and then by scale.
C3_SizesSortedPermutation ==
    settings.ok =>
        /\ IsPermutation(settings.icon_sizes, RequestedSizes)
        /\ Ascending(settings.icon_sizes)

\* C3's case: --size 64 32x32@2 32 becomes [32@1, 32@2, 64@1].
C3_Witness ==
    /\ settings.ok
    /\ argv.size.given
    /\ argv.size.tokens = << <<"6", "4">>,
                             <<"3", "2", "x", "3", "2", "@", "2">>,
                             <<"3", "2">> >>
    /\ Len(settings.icon_sizes) = 3
    /\ settings.icon_sizes[1].size = 32 /\ settings.icon_sizes[1].scale = 1
    /\ settings.icon_sizes[2].size = 32 /\ settings.icon_sizes[2].scale = 2
    /\ settings.icon_sizes[3].size = 64 /\ settings.icon_sizes[3].scale = 1

\* ${XDG_DATA_HOME:-$HOME/.local/share}/icons/hicolor
ExpectedThemeRoot ==
    (IF environ.set /\ environ.val /= "" THEN <<environ.val>>
     ELSE <<"$HOME", ".local/share">>) \o <<"icons", "hicolor">>

\* <size>x<size>[@<scale>]: the scale is written when it is above 1.
ExpectedSizeDir(s) ==
    str(s.size) \o <<"x">> \o str(s.size)
    \o (IF s.scale > 1 THEN <<"@">> \o str(s.scale) ELSE <<>>)

\* <theme_root>/<size>x<size>[@<scale>]/apps/<name>.png
ExpectedTarget(s) ==
    [dir |-> [root |-> ExpectedThemeRoot, size_dir |-> ExpectedSizeDir(s),
              context |-> "apps"],
     file |-> <<argv.name, ".png">>]

\* The target paths to expect, one per requested size in sorted order.
ExpectedTargets ==
    [k \in 1..Len(settings.icon_sizes) |-> ExpectedTarget(settings.icon_sizes[k])]

IsTargetLine(l) == l.kind = "target"

\* The target paths printed so far, in order.
PrintedTargets ==
    LET lines == SelectSeq(printed, IsTargetLine)
    IN  [k \in 1..Len(lines) |-> lines[k].what]

IsPrefix(s, t) == Len(s) <= Len(t) /\ SubSeq(t, 1, Len(s)) = s

\* The run has left the installation loop with every size processed.
PastLoop == settings.ok /\ Len(installed_icons) = Len(settings.icon_sizes)

\* The content expected of the removal instructions.
ExpectedRemoval ==
    [k \in 1..Len(ExpectedTargets) |-> Line("rm -fv", ExpectedTargets[k])]
    \o <<Line("touch --no-create", ExpectedThemeRoot),
         Line("gtk-update-icon-cache -f -t", ExpectedThemeRoot)>>

\* C4 as stated: with --simulate nothing under the theme root is created or
\* modified by any step (no directory, no icon file, no timestamp or cache
\* change), and a run that has left the loop does not end without the removal
\* instructions written.
C4_SimulateChangesNothing ==
    [][argv.simulate =>
          /\ UNCHANGED <<root_exists, fs_dirs, fs_files, touched, cache_runs>>
          /\ (PastLoop /\ pc' = "exited") => removal_file' /= NoFile]_vars

\* The part of C4 the code keeps: with --simulate no step creates the theme
\* root, an icon directory or an icon file; the cache notifier runs as in a
\* normal run, so a
\* simulated run that starts without the theme root ends at the touch with
\* status 1 and no removal instructions; a simulated run that ends with status
\* 0 has printed every target path and written the removal instructions.
C4_SimulateWritesNoIcons ==
    [][argv.simulate =>
          /\ UNCHANGED <<root_exists, fs_dirs, fs_files>>
          /\ fs_dirs = {} /\ fs_files = {}
          /\ (~root_exists /\ pc' = "exited") =>
                 exit_code' /= 0 /\ removal_file' = NoFile
          /\ exit_code' = 0 =>
                 /\ PrintedTargets' = ExpectedTargets'
                 /\ removal_file' = ExpectedRemoval']_vars

\* A simulated run of two sizes has ended with status 0: the touch and the
\* removal instructions are done and no icon was written.
C4_Witness ==
    /\ argv.simulate
    /\ exit_code = 0
    /\ Len(settings.icon_sizes) = 2
    /\ Len(PrintedTargets) = 2
    /\ removal_file /= NoFile
    /\ touched = 1
    /\ fs_dirs = {} /\ fs_files = {}

\* C5: in a run where no step fails exactly one target path is printed per
\* requested size, in sorted order, each <theme_root>/<size>x<size>[@<scale>]/
\* apps/<name>.png, in simulate and in normal mode alike; until then the
\* printed paths are the first of that list.
C5_PrintedTargets ==
    settings.ok =>
        /\ IsPrefix(PrintedTargets, ExpectedTargets)
        /\ exit_code = 0 => PrintedTargets = ExpectedTargets

\* C5's case: --size 32 64x64@2 --name testapp --simulate prints
\* .../32x32/apps/testapp.png, then .../64x64@2/apps/testapp.png.
C5_Witness ==
    /\ exit_code = 0
    /\ argv.simulate
    /\ argv.name = "testapp"
    /\ argv.size.given
    /\ argv.size.tokens = << <<"3", "2">>, <<"6", "4", "x", "6", "4", "@", "2">> >>
    /\ ~environ.set
    /\ PrintedTargets =
          << [dir |-> [root |-> <<"$HOME", ".local/share", "icons", "hicolor">>,
                       size_dir |-> <<"3", "2", "x", "3", "2">>,
                       context |-> "apps"],
              file |-> <<"testapp", ".png">>],
             [dir |-> [root |-> <<"$HOME", ".local/share", "icons", "hicolor">>,
                       size_dir |-> <<"6", "4", "x", "6", "4", "@", "2">>,
                       context |-> "apps"],
              file |-> <<"testapp", ".png">>] >>

C7_ExactlyOneSource ==
    /\ settings.ok => (argv.discord /= argv.icon.given) /\ argv.name /= ""
    /\ ((~argv.discord /\ ~argv.icon.given) \/ argv.name = "") =>
           /\ ~settings.ok
           /\ io = {}
           /\ pc = "exited" => exit_code /= 0

\* C7 with "exactly one" read as "at least one".
C7_AtLeastOneSource ==
    /\ settings.ok => (argv.discord \/ argv.icon.given) /\ argv.name /= ""
    /\ ((~argv.discord /\ ~argv.icon.given) \/ argv.name = "") =>
           /\ ~settings.ok
           /\ io = {}
           /\ pc = "exited" => exit_code /= 0

\* The loaded source is a raster image whose width differs from its height.
LoadedNonSquareRaster ==
    icon_image.ok /\ ~icon_image.is_svg /\ icon_image.img.w /= icon_image.img.h

\* C8: with a non-square raster source the run ends with an error before
\* resize_image_as_copy is called and before anything is created under the
\* theme root; an SVG source is never rejected by this check.
C8_NonSquareRejectedBeforeResize ==
    /\ LoadedNonSquareRaster =>
          /\ pc \in {"check", "exited"}
          /\ resize_calls = 0
          /\ fs_dirs = {} /\ fs_files = {} /\ touched = 0 /\ cache_runs = 0
          /\ pc = "exited" => exit_code = 1 /\ faults = {"non-square"}
    /\ (icon_image.ok /\ icon_image.is_svg) => "non-square" \notin faults

\* C8's case: a 32x16 PNG was loaded and the run has ended with status 1.
C8_Witness ==
    /\ LoadedNonSquareRaster
    /\ icon_image.img.w = 32 /\ icon_image.img.h = 16
    /\ pc = "exited"
    /\ exit_code = 1
    /\ resize_calls = 0

CapturedOutputReported ==
    \E k \in 1..Len(printed) :
        printed[k].kind = "cache" /\ printed[k].what = cache_result.stdout

\* C10: when the cache-refresh executable is found and returns non-zero, the
\* run is aborted as a fatal error and the captured output is reported.
C10_CacheFailureReported ==
    (cache_result.found /\ cache_result.returncode /= 0) =>
        /\ pc = "exited"
        /\ exit_code = 1
        /\ CapturedOutputReported

\* C10 without the report: the run is aborted with status 1.
C10_CacheFailureFatal ==
    (cache_result.found /\ cache_result.returncode /= 0) =>
        pc = "exited" /\ exit_code = 1 /\ removal_file = NoFile

\* The paths of the icon files written so far.
WrittenPaths == {f.path : f \in fs_files}

\* The target paths of the first n sizes of the sorted list.
TargetsUpTo(n) ==
    {ExpectedTargets[k] : k \in 1..(IF n < Len(ExpectedTargets) THEN n ELSE Len(ExpectedTargets))}

\* A directory creation or a file write of the installation loop failed.
InstallFailed == faults \cap {"mkdir", "write"} /= {}

\* C11: in normal mode the icon files written are at every point those of a
\* prefix of the sorted size list: the sizes installed so far, and the file of
\* the size at hand when its write failed half way. A failed mkdir or write at
\* the k-th size ends the run with status 1, no later size is resized,
\* printed or written, and the files of the earlier sizes stay.
C11_WrittenFilesArePrefix ==
    (settings.ok /\ ~argv.simulate) =>
        LET n == Len(installed_icons)
        IN  /\ n <= Len(settings.icon_sizes)
            /\ installed_icons = SubSeq(ExpectedTargets, 1, n)
            /\ WrittenPaths \in {TargetsUpTo(n), TargetsUpTo(n + 1)}
            /\ ~InstallFailed => WrittenPaths = TargetsUpTo(n)
            /\ InstallFailed =>
                  /\ pc = "exited" /\ exit_code = 1
                  /\ n < Len(settings.icon_sizes)
                  /\ resize_calls = n + 1
                  /\ Len(PrintedTargets) = n + 1
            /\ \A f \in fs_files :
                  \/ f.content[1] = "PNG"
                  \/ InstallFailed /\ f.path = ExpectedTargets[n + 1]

\* C11's case: of three sizes the first was installed and the write of the
\* second failed after the file was opened: the run has ended, the first file
\* is in place.
C11_Witness ==
    /\ ~argv.simulate
    /\ settings.ok
    /\ Len(settings.icon_sizes) = 3
    /\ "write" \in faults
    /\ pc = "exited"
    /\ Len(installed_icons) = 1
    /\ Cardinality(fs_files) = 2
    /\ \E f \in fs_files : f.path = ExpectedTargets[1] /\ f.content[1] = "PNG"

\* Loading, the square check or an installation iteration failed.
FailedBeforeNotifier ==
    faults \cap {"usage", "argparse", "arguments", "download", "extraction",
                 "decode", "non-square", "resize", "mkdir", "write"} /= {}

\* C12: the theme root is touched at most once and only after every size was
\* processed, the cache refresh is invoked at most once and only after the
\* touch, and neither happens in a run in which loading, the square check or
\* an installation iteration failed.
C12_NotifierAfterLoop ==
    /\ touched <= 1
    /\ cache_runs <= 1
    /\ touched = 1 => PastLoop /\ pc \in {"cache", "removal", "exited"}
    /\ pc \in {"touch", "cache", "removal"} => PastLoop
    /\ cache_runs = 1 => touched = 1 /\ pc \in {"removal", "exited"}
    /\ FailedBeforeNotifier => touched = 0 /\ cache_runs = 0

\* C12's case: three sizes were installed, then the touch and the cache
\* refresh were done.
C12_Witness ==
    /\ touched = 1
    /\ cache_runs = 1
    /\ Len(installed_icons) = 3
    /\ ~argv.simulate
    /\ Cardinality(fs_files) = 3

(***************************************************************************)
(* SpecResize: an IconImage is constructed from a path, from raw bytes or  *)
(* from an Image, and its methods are called in any order.                 *)
(***************************************************************************)
SourcePaths ==
    {[given |-> TRUE, is_file |-> TRUE, st_size |-> 1, suffix |-> x] :
        x \in {".png", ".svg"}}

SourceImages ==
    {[w |-> d[1], h |-> d[2], pix |-> <<"decoded">>] : d \in RasterDims}

\* The keyword inputs of IconImage(...): one of path, raw_bytes and img, and
\* the illegal combinations none and two.
ConstructorInputs ==
    {[path |-> p, file |-> f, raw |-> NoBytes, img |-> NoImg] :
        p \in SourcePaths, f \in ByteBuffers}
    \cup {[path |-> NoIcon, file |-> NoBytes, raw |-> b, img |-> NoImg] :
            b \in ByteBuffers}
    \cup {[path |-> NoIcon, file |-> NoBytes, raw |-> NoBytes, img |-> i] :
            i \in SourceImages}
    \cup {[path |-> NoIcon, file |-> NoBytes, raw |-> NoBytes, img |-> NoImg]}
    \cup {[path |-> NoIcon, file |-> NoBytes, raw |-> SvgBytes, img |-> i] :
            i \in SourceImages}

\* The IconSize values the calls are made with.
ResizeSizes ==
    {ValidateIconSize(n, k) : n \in {16, 32, 64}, k \in {1, 2}}

InitResize ==
    /\ rz_pc = "new"
    /\ rz_cairosvg \in BOOLEAN
    /\ rz_built = NoObject
    /\ rz_image = NoObject
    /\ rz_size = NoSize
    /\ rz_result = NoResult
    /\ rz_seen = <<0, 0>>
    /\ rz_calls = 0
    /\ rz_images = 0
    /\ RunIdle
    /\ NameIdle
    /\ ParseIdle
    /\ DownloadIdle
    /\ PatchIdle

\* IconImage(path=...), IconImage(raw_bytes=...) or IconImage(img=...).
Construct ==
    /\ rz_pc = "new"
    /\ \E in \in ConstructorInputs :
          LET c == post_init(in.path, in.file, in.raw, in.img)
          IN  IF c.ok
              THEN /\ rz_built' = c.obj
                   /\ rz_image' = c.obj
                   /\ rz_images' = c.obj.img_id
                   /\ rz_pc' = "ready"
              ELSE /\ rz_pc' = "raised"
                   /\ UNCHANGED <<rz_built, rz_image, rz_images>>
    /\ UNCHANGED <<rz_cairosvg, rz_size, rz_result, rz_seen, rz_calls,
                   notResizeVars>>

\* image.resize_image_as_copy(size); when it raises, the caller goes on.
CallResize ==
    /\ rz_pc = "ready"
    /\ rz_calls < MaxResizeCalls
    /\ \E size \in ResizeSizes :
          LET c == call_resize_image_as_copy(rz_image, size, rz_cairosvg,
                                             rz_images + 1)
          IN  /\ rz_image' = c.obj
              /\ rz_size' = size
              /\ rz_result' = [ok |-> c.ok, img |-> c.img, img_id |-> c.img_id]
              /\ rz_images' = IF c.ok THEN rz_images + 1 ELSE rz_images
    /\ rz_calls' = rz_calls + 1
    /\ UNCHANGED <<rz_pc, rz_cairosvg, rz_built, rz_seen, notResizeVars>>

\* image.get_image_size(), which asks is_svg().
CallGetImageSize ==
    /\ rz_pc = "ready"
    /\ LET c == call_get_image_size(rz_image)
       IN  /\ rz_image' = c.obj
           /\ rz_seen' = c.size
    /\ UNCHANGED <<rz_pc, rz_cairosvg, rz_built, rz_size, rz_result, rz_calls,
                   rz_images, notResizeVars>>

NextResize ==
    \/ Construct
    \/ CallResize
    \/ CallGetImageSize

SpecResize == InitResize /\ [][NextResize]_vars

\* The source is a raster image: is_svg() answers False.
IsRaster(o) == call_is_svg(o).is_svg = "False"

\* C13: for a raster source and any valid IconSize, resize_image_as_copy
\* returns an image whose width and height both equal the size (the scale
\* changes nothing), and for a source that already has these dimensions the
\* result is another Image object with the pixels of the source, not
\* resampled.
C13_ResizedDimensions ==
    (rz_calls > 0 /\ IsRaster(rz_image)) =>
        /\ rz_result.ok
        /\ rz_result.img.w = rz_size.size
        /\ rz_result.img.h = rz_size.size
        /\ (rz_image.img.w = rz_size.size /\ rz_image.img.h = rz_size.size) =>
              /\ rz_result.img.pix = rz_image.img.pix
              /\ rz_result.img_id /= rz_image.img_id

\* C13's case: a 32x32 raster asked for 32x32@2 was copied, after a call that
\* resampled it.
C13_Witness ==
    /\ rz_calls > 1
    /\ IsRaster(rz_image)
    /\ rz_result.ok
    /\ rz_size.size = 32
    /\ rz_size.scale = 2
    /\ rz_image.img.w = 32
    /\ rz_image.img.h = 32
    /\ rz_result.img.pix = <<"decoded">>
    /\ rz_result.img_id > 2

\* What the callers of an IconImage can see of it.
Observable(o) ==
    [is_svg |-> call_is_svg(o).is_svg,
     size |-> call_get_image_size(o).size,
     img |-> o.img,
     raw |-> o.raw]

\* C14: whatever calls were made, get_image_size() and is_svg() answer as
\* they did after construction, the pixels and the raw bytes of the source
\* are those of construction, and a resize returns what the same resize
\* returns on the object as constructed.
C14_ResizeLeavesSource ==
    rz_pc = "ready" =>
        /\ Observable(rz_image) = Observable(rz_built)
        /\ rz_seen \in {<<0, 0>>, call_get_image_size(rz_built).size}
        /\ rz_calls > 0 =>
              LET c == call_resize_image_as_copy(rz_built, rz_size, rz_cairosvg,
                                                 rz_result.img_id)
              IN  rz_result = [ok |-> c.ok, img |-> c.img, img_id |-> c.img_id]

\* C14's case: an SVG file was rendered a second time, with the stream left
\* at its end by the first rendering.
C14_Witness ==
    /\ rz_calls >= 2
    /\ rz_result.ok
    /\ rz_built.is_svg = "True"
    /\ rz_built.pos = "start"
    /\ rz_image.pos = "moved"
    /\ rz_seen = <<-1, -1>>

(***************************************************************************)
(* SpecDownload: one call of download_with_progress, of iconix.py or of    *)
(* patch.py, on a response that delivers its body in non-empty chunks.     *)
(***************************************************************************)
\* A chunk is one or two bytes; response.read returns b"" at the end.
Chunks == UNION {[1..n -> {"a", "b"}] : n \in 1..2}

Bodies == UNION {[1..n -> Chunks] : n \in 0..MaxChunks}

\* 200, a status urlopen hands back as it does 200, and one it raises for.
StatusCodes == {200, 204, 404}

\* response.getheader("Content-Length"): None, "0", "4", "-1" and "x".
LengthHeaders ==
    {NoHeader} \cup {[present |-> TRUE, val |-> v] :
                        v \in {<<"0">>, <<"4">>, <<"-", "1">>, <<"x">>}}

\* int(content_length_header) (line 274): an optional sign and digits, else
\* ValueError.
int_of(val) ==
    IF IsDigits(val) THEN [ok |-> TRUE, n |-> int10(val)]
    ELSE IF Len(val) > 1 /\ val[1] \in {"-", "+"} /\ IsDigits(Tail(val))
    THEN [ok |-> TRUE,
          n |-> IF val[1] = "-" THEN 0 - int10(Tail(val)) ELSE int10(Tail(val))]
    ELSE [ok |-> FALSE, n |-> 0]

\* BytesIO.write: the bytes go in at the position, which moves past them.
BytesIO_write(b, chunk) ==
    [buf |-> SubSeq(b.buf, 1, b.pos) \o chunk
             \o SubSeq(b.buf, b.pos + Len(chunk) + 1, Len(b.buf)),
     pos |-> b.pos + Len(chunk)]

\* BytesIO.seek(0).
BytesIO_seek0(b) == [b EXCEPT !.pos = 0]

\* response.read(chunk_size): the next chunk, b"" when none is left.
response_read(unread) == IF unread = <<>> THEN <<>> ELSE Head(unread)

InitDownload ==
    /\ dl_module \in {"iconix.py", "patch.py"}
    /\ dl_code \in StatusCodes
    /\ dl_length \in LengthHeaders
    /\ dl_body \in Bodies
    /\ dl_tty \in BOOLEAN
    /\ dl_pc = "open"
    /\ dl_unread = dl_body
    /\ dl_reads = 0
    /\ total_size = -1
    /\ data = EmptyBuffer
    /\ bytes_downloaded = 0
    /\ dl_out = <<>>
    /\ dl_result = NoReturn
    /\ RunIdle
    /\ NameIdle
    /\ ParseIdle
    /\ ResizeIdle
    /\ PatchIdle

\* The call raises `what`.
Raise(what) ==
    /\ dl_pc' = "raised"
    /\ dl_result' = [kind |-> what, data |-> EmptyBuffer]

\* iconix.py lines 265-285, patch.py lines 40-60: the request is made, the
\* status is looked at, the Content-Length header is read.
OpenResponse ==
    /\ dl_pc = "open"
    /\ IF dl_code \notin {200, 204}
       THEN \* urlopen raises HTTPError (line 266 / 41)
            /\ Raise("HTTPError")
            /\ UNCHANGED <<total_size, dl_out>>
       ELSE IF dl_code /= 200
       THEN IF dl_module = "iconix.py"
            THEN \* iconix.py line 269
                 /\ Raise("Exception")
                 /\ UNCHANGED <<total_size, dl_out>>
            ELSE \* patch.py lines 44-45
                 /\ dl_out' = Append(dl_out, [kind |-> "error", n |-> dl_code, of |-> -1])
                 /\ dl_pc' = "returned"
                 /\ dl_result' = [kind |-> "None", data |-> EmptyBuffer]
                 /\ UNCHANGED total_size
       ELSE IF dl_length.present /\ ~int_of(dl_length.val).ok
       THEN \* line 274 / 50: int() raises
            /\ Raise("ValueError")
            /\ UNCHANGED <<total_size, dl_out>>
       ELSE /\ total_size' = IF dl_length.present /\ int_of(dl_length.val).n > 0
                             THEN int_of(dl_length.val).n ELSE -1
            /\ dl_pc' = "loop"
            /\ UNCHANGED <<dl_out, dl_result>>
    /\ UNCHANGED <<dl_module, dl_code, dl_length, dl_body, dl_tty, dl_unread,
                   dl_reads, data, bytes_downloaded, notDownloadVars>>

\* iconix.py lines 287-320, patch.py lines 62-93: one round of the while
\* loop, and at the empty chunk the end of the call.
ReadChunk ==
    /\ dl_pc = "loop"
    /\ dl_reads' = dl_reads + 1
    /\ LET chunk == response_read(dl_unread)
       IN  IF chunk = <<>>
           THEN /\ dl_out' = Append(dl_out, [kind |-> "complete", n |-> bytes_downloaded, of |-> total_size])
                /\ data' = BytesIO_seek0(data)
                /\ dl_result' = [kind |-> "buffer", data |-> data']
                /\ dl_pc' = "returned"
                /\ UNCHANGED <<dl_unread, bytes_downloaded>>
           ELSE /\ dl_unread' = Tail(dl_unread)
                /\ data' = BytesIO_write(data, chunk)
                /\ bytes_downloaded' = bytes_downloaded + Len(chunk)
                /\ dl_out' = IF dl_tty
                             THEN Append(dl_out, [kind |-> "progress",
                                                  n |-> bytes_downloaded',
                                                  of |-> total_size])
                             ELSE dl_out
                /\ UNCHANGED <<dl_pc, dl_result>>
    /\ UNCHANGED <<dl_module, dl_code, dl_length, dl_body, dl_tty, total_size,
                   notDownloadVars>>

NextDownload ==
    \/ OpenResponse
    \/ ReadChunk

SpecDownload == InitDownload /\ [][NextDownload]_vars

RECURSIVE Concatenation(_)
\* The chunks of a body joined in order.
Concatenation(chunks) ==
    IF chunks = <<>> THEN <<>> ELSE Head(chunks) \o Concatenation(Tail(chunks))

\* The chunks read so far.
ChunksRead == SubSeq(dl_body, 1, Len(dl_body) - Len(dl_unread))

\* The loop keeps the count equal to the bytes held, which are those of the
\* chunks read so far in order; it ends at the first empty chunk with the
\* whole body in the buffer, at offset 0.
DownloadLoopKeeps ==
    /\ dl_pc \in {"loop", "returned"} /\ dl_result.kind /= "None" =>
          /\ bytes_downloaded = Len(data.buf)
          /\ data.buf = Concatenation(ChunksRead)
    /\ dl_pc = "loop" => dl_reads = Len(ChunksRead) /\ data.pos = Len(data.buf)
    /\ dl_result.kind = "buffer" =>
          /\ dl_pc = "returned"
          /\ dl_reads = Len(dl_body) + 1
          /\ dl_result.data = [buf |-> Concatenation(dl_body), pos |-> 0]
    /\ dl_code /= 200 => dl_result.kind /= "buffer" /\ dl_pc /= "loop"

\* C15: for a 200 response the running byte count equals the bytes held
\* after every chunk, the call ends at the first empty chunk and returns the
\* concatenation of the chunks at offset 0; for a non-200 response it fails
\* without returning a buffer.
C15_DownloadReturnsBody ==
    /\ DownloadLoopKeeps
    /\ dl_code = 200 => dl_pc /= "raised"

\* The part of C15 the code keeps: the same, for responses whose
\* Content-Length header is absent or an integer.
C15_UnlessLengthMalformed ==
    /\ DownloadLoopKeeps
    /\ (dl_code = 200 /\ (dl_length.present => int_of(dl_length.val).ok)) =>
          dl_pc /= "raised"

(***************************************************************************)
(* SpecPatch: one run of patch.py, which installs the icon of the archive  *)
(* as it is, in the one directory named after its dimensions.              *)
(***************************************************************************)
\* The dimensions the archive member may have: square and divisible by 8,
\* square only, divisible by 8 only.
PatchDims == {<<256, 256>>, <<16, 16>>, <<12, 12>>, <<64, 32>>}

\* The archive: one that tarfile cannot open, or one that opens and holds no
\* Discord/discord.png, or holds it with bytes that are an image or not.
Archives ==
    {NoArchive}
    \cup {[opens |-> TRUE, member |-> m] :
            m \in {NoBytes, JunkBytes} \cup {PngBytes(d[1], d[2]) : d \in PatchDims}}

InitPatch ==
    /\ pt_pc = "download"
    /\ pt_response \in StatusCodes
    /\ pt_archive \in Archives
    /\ pt_environ \in XdgValues
    /\ tar_data = "None"
    /\ discord_png_data = NoStream
    /\ pt_width = -1
    /\ pt_height = -1
    /\ pt_dirs = {}
    /\ pt_files = {}
    /\ pt_touched = 0
    /\ pt_cache_runs = 0
    /\ pt_removal = NoFile
    /\ pt_out = <<>>
    /\ pt_exit = -1      \* no exit status yet
    /\ pt_faults = {}
    /\ RunIdle
    /\ NameIdle
    /\ ParseIdle
    /\ ResizeIdle
    /\ DownloadIdle

PatchGoto(label) == pt_pc' = label /\ UNCHANGED pt_exit

\* print(f"Error: ..."); exit(1).
PatchErrorExit(stage, message) ==
    /\ pt_out' = Append(pt_out, Line("error", message))
    /\ pt_faults' = pt_faults \cup {stage}
    /\ pt_pc' = "exited"
    /\ pt_exit' = 1

\* An exception nothing catches: the interpreter prints the traceback and
\* ends with status 1.
PatchTraceback(stage, what) ==
    /\ pt_out' = Append(pt_out, Line("traceback", what))
    /\ pt_faults' = pt_faults \cup {stage}
    /\ pt_pc' = "exited"
    /\ pt_exit' = 1

\* patch.py lines 154-157: the download; None for a status other than 200
\* (lines 43-45), an exception when urlopen raises.
PatchDownload ==
    /\ pt_pc = "download"
    /\ IF pt_response = 200
       THEN /\ tar_data' = "buffer"
            /\ pt_out' = Append(pt_out, Line("download", "Download complete."))
            /\ PatchGoto("extract")
            /\ UNCHANGED pt_faults
       ELSE IF pt_response = 204
       THEN /\ PatchErrorExit("download", "HTTP response received.")
            /\ UNCHANGED tar_data
       ELSE /\ PatchTraceback("download", "urlopen")
            /\ UNCHANGED tar_data
    /\ UNCHANGED <<pt_response, pt_archive, pt_environ, discord_png_data,
                   pt_width, pt_height, pt_dirs, pt_files, pt_touched,
                   pt_cache_runs, pt_removal, notPatchVars>>

\* patch.py lines 160-164: extract_discord_icon (lines 96-123).
PatchExtract ==
    /\ pt_pc = "extract"
    /\ IF ~pt_archive.opens
       THEN /\ PatchTraceback("extraction", "tarfile.open")
            /\ UNCHANGED discord_png_data
       ELSE IF pt_archive.member = NoBytes
       THEN /\ PatchErrorExit("extraction", "Discord/discord.png was not found in archive!")
            /\ UNCHANGED discord_png_data
       ELSE /\ discord_png_data' = [raw |-> pt_archive.member, pos |-> "start"]
            /\ pt_out' = Append(pt_out, Line("found", "discord.png"))
            /\ PatchGoto("size")
            /\ UNCHANGED pt_faults
    /\ UNCHANGED <<pt_response, pt_archive, pt_environ, tar_data, pt_width,
                   pt_height, pt_dirs, pt_files, pt_touched, pt_cache_runs,
                   pt_removal, notPatchVars>>

\* get_image_size of patch.py (lines 126-136): Image.open reads the stream,
\* raising on bytes that are no image; then the stream is rewound.
patch_get_image_size(image_data) ==
    LET read == ReadStream(image_data)
    IN  IF read.fmt /= "png"
        THEN [raised |-> TRUE, success |-> FALSE, width |-> -1, height |-> -1,
              image_data |-> [image_data EXCEPT !.pos = "moved"]]
        ELSE [raised |-> FALSE,
              success |-> ~(read.w = -1 /\ read.h = -1),
              width |-> read.w, height |-> read.h,
              image_data |-> [image_data EXCEPT !.pos = "start"]]

\* patch.py lines 169-172.
PatchGetImageSize ==
    /\ pt_pc = "size"
    /\ LET r == patch_get_image_size(discord_png_data)
       IN  /\ discord_png_data' = r.image_data
           /\ IF r.raised
              THEN /\ PatchTraceback("decode", "Image.open")
                   /\ UNCHANGED <<pt_width, pt_height>>
              ELSE /\ pt_width' = r.width
                   /\ pt_height' = r.height
                   /\ IF ~r.success
                      THEN PatchErrorExit("decode", "Failed to get icon dimensions from PNG file.")
                      ELSE PatchGoto("check") /\ UNCHANGED <<pt_out, pt_faults>>
    /\ UNCHANGED <<pt_response, pt_archive, pt_environ, tar_data, pt_dirs,
                   pt_files, pt_touched, pt_cache_runs, pt_removal, notPatchVars>>

\* The check asking for an even width only.
BadGeometry_EvenOnly(w, h) == (w /= h) \/ (w % 2) /= 0

\* patch.py line 176.
BadGeometry(w, h) == (w /= h) \/ (w % 8) /= 0

\* patch.py lines 174-180.
PatchCheck ==
    /\ pt_pc = "check"
    /\ IF BadGeometry(pt_width, pt_height)
       THEN PatchErrorExit("geometry", "Icon dimensions are not square or not divisible by 8")
       ELSE PatchGoto("install") /\ UNCHANGED <<pt_out, pt_faults>>
    /\ UNCHANGED <<pt_response, pt_archive, pt_environ, tar_data,
                   discord_png_data, pt_width, pt_height, pt_dirs, pt_files,
                   pt_touched, pt_cache_runs, pt_removal, notPatchVars>>

\* patch.py lines 187-189: the theme root (get_xdg_data_home of lines 139-145
\* is the one of iconix.py).
PatchThemeDir(xdg) == get_xdg_data_home(xdg) \o <<"icons", "hicolor">>

\* patch.py lines 190-194.
PatchParentDir(theme_dir, w, h) ==
    [root |-> theme_dir, size_dir |-> str(w) \o <<"x">> \o str(h),
     context |-> "apps"]

\* patch.py line 195.
PatchTargetFile(theme_dir, w, h) ==
    [dir |-> PatchParentDir(theme_dir, w, h), file |-> <<"vesktop", ".png">>]

\* patch.py lines 187-204: the directory is made and the bytes the stream
\* yields are written. (mkdir either makes the directory or raises, so the
\* is_dir test of line 198 finds it.)
PatchInstall ==
    /\ pt_pc = "install"
    /\ LET theme_dir == PatchThemeDir(pt_environ)
           parent    == PatchParentDir(theme_dir, pt_width, pt_height)
           target    == PatchTargetFile(theme_dir, pt_width, pt_height)
           shown     == Append(pt_out, Line("target", target))
           abort(stage, what) ==
               /\ pt_out' = Append(shown, Line("traceback", what))
               /\ pt_faults' = pt_faults \cup {stage}
               /\ pt_pc' = "exited"
               /\ pt_exit' = 1
       IN  \E outcome \in InstallOutcomes :
             CASE outcome = "mkdir raises" ->
                    /\ abort("mkdir", "mkdir")
                    /\ UNCHANGED <<pt_dirs, pt_files, discord_png_data>>
               [] outcome = "open raises" ->
                    /\ pt_dirs' = pt_dirs \cup {parent}
                    /\ abort("write", "open")
                    /\ UNCHANGED <<pt_files, discord_png_data>>
               [] outcome = "save raises" ->
                    /\ pt_dirs' = pt_dirs \cup {parent}
                    /\ pt_files' = WriteFile(pt_files, target, <<"truncated">>)
                    /\ discord_png_data' = [discord_png_data EXCEPT !.pos = "moved"]
                    /\ abort("write", "write")
               [] outcome = "ok" ->
                    /\ pt_dirs' = pt_dirs \cup {parent}
                    /\ pt_files' = WriteFile(pt_files, target,
                                             <<"bytes", ReadStream(discord_png_data)>>)
                    /\ discord_png_data' = [discord_png_data EXCEPT !.pos = "moved"]
                    /\ pt_out' = shown
                    /\ PatchGoto("notify")
                    /\ UNCHANGED pt_faults
    /\ UNCHANGED <<pt_response, pt_archive, pt_environ, tar_data, pt_width,
                   pt_height, pt_touched, pt_cache_runs, pt_removal,
                   notPatchVars>>

\* patch.py lines 208-227: os.utime on the theme root, then the cache refresh
\* when gtk-update-icon-cache is on the path.
PatchNotify ==
    /\ pt_pc = "notify"
    /\ \/ /\ PatchTraceback("touch", "os.utime")
          /\ UNCHANGED <<pt_touched, pt_cache_runs>>
       \/ /\ pt_touched' = pt_touched + 1
          /\ \/ \* shutil.which finds nothing
                /\ PatchGoto("removal")
                /\ UNCHANGED <<pt_cache_runs, pt_out, pt_faults>>
             \/ /\ pt_cache_runs' = pt_cache_runs + 1
                /\ \E rc \in {0, 1} :
                      IF rc /= 0
                      THEN PatchErrorExit("cache", "A problem occurred while executing gtk-update-icon-cache.")
                      ELSE /\ pt_out' = Append(pt_out, Line("cache", "GNOME's icon cache"))
                           /\ PatchGoto("removal")
                           /\ UNCHANGED pt_faults
    /\ UNCHANGED <<pt_response, pt_archive, pt_environ, tar_data,
                   discord_png_data, pt_width, pt_height, pt_dirs, pt_files,
                   pt_removal, notPatchVars>>

\* patch.py lines 230-248: the removal instructions are written and printed,
\* and the script ends.
PatchRemoval ==
    /\ pt_pc = "removal"
    /\ \/ /\ PatchTraceback("removal", "write_text")
          /\ UNCHANGED pt_removal
       \/ /\ pt_removal' =
                <<Line("rm -fv", PatchTargetFile(PatchThemeDir(pt_environ), pt_width, pt_height)),
                  Line("touch --no-create", PatchThemeDir(pt_environ)),
                  Line("gtk-update-icon-cache -f -t", PatchThemeDir(pt_environ))>>
          /\ pt_out' = Append(pt_out, Line("instructions", "how_to_remove.txt"))
          /\ pt_pc' = "exited"
          /\ pt_exit' = 0
          /\ UNCHANGED pt_faults
    /\ UNCHANGED <<pt_response, pt_archive, pt_environ, tar_data,
                   discord_png_data, pt_width, pt_height, pt_dirs, pt_files,
                   pt_touched, pt_cache_runs, notPatchVars>>

NextPatch ==
    \/ PatchDownload
    \/ PatchExtract
    \/ PatchGetImageSize
    \/ PatchCheck
    \/ PatchInstall
    \/ PatchNotify
    \/ PatchRemoval

SpecPatch == InitPatch /\ [][NextPatch]_vars

\* The download succeeds, the archive holds the member, and the member is a
\* square image whose width is divisible by 8.
PatchConditions ==
    /\ pt_response = 200
    /\ pt_archive.opens
    /\ pt_archive.member.fmt = "png"
    /\ pt_archive.member.w = pt_archive.member.h
    /\ pt_archive.member.w % 8 = 0

\* The theme root patch.py is to use.
ExpectedPatchRoot ==
    IF pt_environ.set /\ pt_environ.val /= ""
    THEN <<pt_environ.val, "icons", "hicolor">>
    ELSE <<"$HOME", ".local/share", "icons", "hicolor">>

\* The directory <root>/<width>x<height>/apps of the member's dimensions.
ExpectedPatchDir ==
    [root |-> ExpectedPatchRoot,
     size_dir |-> str(pt_archive.member.w) \o <<"x">> \o str(pt_archive.member.h),
     context |-> "apps"]

\* The write of line 204 has been done.
PatchWritten ==
    \/ pt_pc \in {"notify", "removal"}
    \/ pt_pc = "exited" /\ (pt_exit = 0 \/ pt_faults \cap {"touch", "cache", "removal"} /= {})

\* C16: patch.py makes the directory and writes the file only if the
\* download succeeded, the member was found and the image is square with a
\* width divisible by 8; otherwise it ends with status 1 with no directory
\* and no file made; and a file written holds the bytes of the member, in the
\* directory named <width>x<height>.
C16_PatchInstallsOnlyChecked ==
    /\ (pt_dirs /= {} \/ pt_files /= {}) => PatchConditions
    /\ ~PatchConditions =>
          /\ pt_pc \in {"download", "extract", "size", "check", "exited"}
          /\ pt_pc = "exited" => pt_exit = 1
    /\ pt_pc \in {"install", "notify", "removal"} => PatchConditions
    /\ PatchWritten =>
          /\ pt_dirs = {ExpectedPatchDir}
          /\ pt_files = {[path |-> [dir |-> ExpectedPatchDir,
                                     file |-> <<"vesktop", ".png">>],
                           content |-> <<"bytes", pt_archive.member>>]}

\* C16's case: a run on a 256x256 member that ended with status 0, the file
\* written under 256x256.
C16_Witness ==
    /\ pt_pc = "exited"
    /\ pt_exit = 0
    /\ pt_archive.member = PngBytes(256, 256)
    /\ \E f \in pt_files :
          /\ f.path.dir.size_dir = <<"2", "5", "6", "x", "2", "5", "6">>
          /\ f.content = <<"bytes", PngBytes(256, 256)>>

(***************************************************************************)
(* SpecName: two valid IconSize values are named with get_name, and the    *)
(* name of the first is parsed by IconSize.                                *)
(***************************************************************************)
\* IconSize(n, k) for the even sizes up to MaxNameSize, 128 and 1024, and the
\* scales up to MaxNameScale: all of them valid.
NamedSizes ==
    {ValidateIconSize(n, k) :
        n \in {m \in 1..MaxNameSize : m % 2 = 0} \cup {128, 1024},
        k \in 1..MaxNameScale}

InitName ==
    /\ nm_pc = "made"
    /\ nm_a \in NamedSizes
    /\ nm_b \in NamedSizes
    /\ nm_name_a = <<>>
    /\ nm_name_b = <<>>
    /\ nm_back = NotCalled
    /\ RunIdle
    /\ ParseIdle
    /\ ResizeIdle
    /\ DownloadIdle
    /\ PatchIdle

\* nm_a.get_name() and nm_b.get_name().
CallGetName ==
    /\ nm_pc = "made"
    /\ nm_name_a' = get_name(nm_a)
    /\ nm_name_b' = get_name(nm_b)
    /\ nm_pc' = "named"
    /\ UNCHANGED <<nm_a, nm_b, nm_back, notNameVars>>

\* IconSize(name) for the name of nm_a.
CallIconSizeOfName ==
    /\ nm_pc = "named"
    /\ nm_back' = IconSize(nm_name_a)
    /\ nm_pc' = "parsed"
    /\ UNCHANGED <<nm_a, nm_b, nm_name_a, nm_name_b, notNameVars>>

NextName ==
    \/ CallGetName
    \/ CallIconSizeOfName

SpecName == InitName /\ [][NextName]_vars

\* IconSize.__eq__, which @dataclass makes: the sizes and the scales agree.
IconSize_eq(a, b) == a.size = b.size /\ a.scale = b.scale

\* C17: parsing the name of a valid IconSize gives an IconSize equal to it,
\* and two valid IconSize values have the same name exactly when they have
\* the same size and scale.
C17_NameRoundTrip ==
    /\ nm_pc = "parsed" => nm_back.ok /\ IconSize_eq(nm_back, nm_a)
    /\ nm_pc \in {"named", "parsed"} =>
          ((nm_name_a = nm_name_b) <=> IconSize_eq(nm_a, nm_b))

\* C17's case: 128 at scale 11 is named 128x128@11 and parsed back, beside
\* 128 at scale 1, named 128x128.
C17_Witness ==
    /\ nm_pc = "parsed"
    /\ nm_name_a = <<"1", "2", "8", "x", "1", "2", "8", "@", "1", "1">>
    /\ nm_name_b = <<"1", "2", "8", "x", "1", "2", "8">>
    /\ nm_back.ok
    /\ nm_back.size = 128
    /\ nm_back.scale = 11
    /\ nm_b.scale = 1

=============================================================================
